---- MODULE Spec2Model ----
(***************************************************************************)
(* Model of models/base_model.py (BaseModel: __init__, create, save,       *)
(* to_dict) together with the storage registry it calls into               *)
(* (models.storage.new / models.storage.save).                             *)
(*                                                                         *)
(* Python values are tagged pairs <<type name, payload>>:                  *)
(*   <<"str", s>>       a string, s the tuple of its pieces                *)
(*   <<"datetime", n>>  a naive datetime, n its count of clock ticks       *)
(*   <<"NoneType", <<>>>>  None                                            *)
(* An instance __dict__ and a keyword mapping are functions from           *)
(* attribute names to values.                                              *)
(***************************************************************************)
EXTENDS Naturals, Sequences, FiniteSets, TLC

VARIABLES objs, registry, file, now, nextUuid, last

vars == <<objs, registry, file, now, nextUuid, last>>

(* ---- bounds of the model ---- *)

\* live instances the heap may hold
MaxObjs == 2
\* live instances in the runs of the constructor alone
MaxCtorObjs == 1
\* last reading of the wall clock, in ticks
MaxClock == 1
\* ticks per second of the model's clock (the fractional part of a timestamp)
TicksPerSec == 2

(* ---- values ---- *)

Str(s) == <<"str", s>>

Dt(n) == <<"datetime", n>>

None == <<"NoneType", <<>>>>

IsStr(v) == v[1] = "str"

IsDatetime(v) == v[1] = "datetime"

EmptyDict == <<>>

Digits == <<"0", "1", "2", "3", "4", "5", "6", "7", "8", "9">>

IsDigit(c) == \E n \in 1..Len(Digits) : Digits[n] = c

DigitVal(c) == (CHOOSE n \in 1..Len(Digits) : Digits[n] = c) - 1

\* datetime.isoformat(): date and time to the second, written here as "T"
\* and the count of seconds, then the fraction only when it is not zero
isoformat(n) ==
    LET sec == n \div TicksPerSec
        frac == n % TicksPerSec
    IN  <<"T", Digits[sec + 1]>> \o
        (IF frac = 0 THEN <<>> ELSE <<".", Digits[frac + 1]>>)

\* mutant of fromisoformat: the fraction of the second is dropped
fromisoformat_NoFraction(v) ==
    IF ~IsStr(v) THEN [err |-> "TypeError", val |-> None]
    ELSE IF Len(v[2]) \in {2, 4} /\ v[2][1] = "T" /\ IsDigit(v[2][2])
         THEN [err |-> "ok", val |-> Dt(DigitVal(v[2][2]) * TicksPerSec)]
         ELSE [err |-> "ValueError", val |-> None]

\* datetime.fromisoformat(v): TypeError unless v is a str, ValueError unless
\* the str is a timestamp; a written-out zero fraction is accepted
fromisoformat(v) ==
    IF ~IsStr(v) THEN [err |-> "TypeError", val |-> None]
    ELSE LET s == v[2]
             wellFormed ==
                 /\ Len(s) \in {2, 4}
                 /\ s[1] = "T"
                 /\ IsDigit(s[2])
                 /\ Len(s) = 4 =>
                       /\ s[3] = "."
                       /\ IsDigit(s[4])
                       /\ DigitVal(s[4]) < TicksPerSec
         IN  IF ~wellFormed THEN [err |-> "ValueError", val |-> None]
             ELSE [err |-> "ok",
                   val |-> Dt(DigitVal(s[2]) * TicksPerSec +
                              (IF Len(s) = 4 THEN DigitVal(s[4]) ELSE 0))]

\* str(uuid.uuid4()): the n-th identifier drawn
uuid4(n) == Str(<<"u", Digits[n + 1]>>)

(* ---- BaseModel ---- *)

Classes == {"User"}

\* cls.__name__ as a str
ClassName(cls) == Str(<<cls>>)

Has(d, k) == k \in DOMAIN d

\* setattr(self, k, v) on the __dict__ d
SetAttr(d, k, v) == [x \in DOMAIN d \cup {k} |-> IF x = k THEN v ELSE d[x]]

TimestampKeys == {"created_at", "updated_at"}

\* create(): the value stored for key k of the mapping
CreateValue(dictionary, k) ==
    IF k \in TimestampKeys
    THEN fromisoformat(dictionary[k]).val
    ELSE dictionary[k]

\* create(): the errors the loop can stop on; the first item in the mapping's
\* order whose timestamp does not parse raises, and any item can come first
CreateErrors(dictionary) ==
    {fromisoformat(dictionary[k]).err :
        k \in {x \in DOMAIN dictionary \cap TimestampKeys :
                  fromisoformat(dictionary[x]).err # "ok"}}

\* mutant of create: the '__class__' item is set like any other
create_KeepsClass(dictionary) ==
    [k \in DOMAIN dictionary |-> CreateValue(dictionary, k)]

\* create(): the __dict__ after the loop ran over every item
create(dictionary) ==
    [k \in DOMAIN dictionary \ {"__class__"} |-> CreateValue(dictionary, k)]

\* __init__: the branch taken
UsesCreate(kwargs) == Cardinality(DOMAIN kwargs) # 0

\* mutant of FreshDict: one id, drawn once, for every instance
FreshDict_SharedId(uuid, t) ==
    [k \in {"id", "created_at", "updated_at"} |->
        IF k = "id" THEN Str(<<"u", "0">>) ELSE Dt(t)]

\* __init__, no keyword arguments: id, created_at, updated_at
FreshDict(uuid, t) ==
    [k \in {"id", "created_at", "updated_at"} |->
        IF k = "id" THEN uuid ELSE Dt(t)]

\* mutant of InitDict: the first positional argument is taken as the id
InitDict_ArgAsId(args, kwargs, uuid, t) ==
    LET d == IF UsesCreate(kwargs) THEN create(kwargs) ELSE FreshDict(uuid, t)
    IN  IF Len(args) > 0 THEN SetAttr(d, "id", args[1]) ELSE d

\* __init__: the __dict__ of the new instance
InitDict(args, kwargs, uuid, t) ==
    IF UsesCreate(kwargs) THEN create(kwargs) ELSE FreshDict(uuid, t)

\* mutant of InitRegisters: every new instance is registered
InitRegisters_Always(args, kwargs) == TRUE

\* __init__: whether it calls models.storage.new(self)
InitRegisters(args, kwargs) == ~UsesCreate(kwargs)

\* mutant of SaveStamp: the clock reading goes to created_at
SaveStamp_WrongField(d, t) == SetAttr(d, "created_at", Dt(t))

\* mutant of SaveStamp: updated_at is reset to created_at, as __init__ does
SaveStamp_FromCreated(d, t) ==
    SetAttr(d, "updated_at", IF Has(d, "created_at") THEN d["created_at"] ELSE Dt(t))

\* save(): the __dict__ after self.updated_at = datetime.datetime.now()
SaveStamp(d, t) == SetAttr(d, "updated_at", Dt(t))

\* to_dict(): AttributeError when created_at or updated_at is missing or has
\* no isoformat(); otherwise the copy of __dict__ with the three entries set
to_dict(o) ==
    IF \E k \in TimestampKeys : ~Has(o.dict, k) \/ ~IsDatetime(o.dict[k])
    THEN [err |-> "AttributeError", val |-> EmptyDict]
    ELSE [err |-> "ok",
          val |-> [k \in DOMAIN o.dict \cup {"__class__"} |->
                     IF k = "__class__" THEN ClassName(o.cls)
                     ELSE IF k \in TimestampKeys
                          THEN Str(isoformat(o.dict[k][2]))
                          ELSE o.dict[k]]]

(* ---- storage engine (models.storage) ---- *)

\* the composite key "<ConcreteTypeName>.<id>"
Key(o) == <<o.cls, o.dict["id"]>>

\* storage.new(obj) on registry reg, obj stored at heap index i
StorageNew(reg, o, i) ==
    [k \in DOMAIN reg \cup {Key(o)} |-> IF k = Key(o) THEN i ELSE reg[k]]

\* a value the serializer writes as it is
JsonNative(v) == v[1] \in {"str", "NoneType"}

\* storage.save(): the error it raises, "ok" when it raises none
StorageSaveErr(heap, reg, ioOk) ==
    IF \E k \in DOMAIN reg : to_dict(heap[reg[k]]).err # "ok"
    THEN "AttributeError"
    ELSE IF \E k \in DOMAIN reg :
              LET m == to_dict(heap[reg[k]]).val
              IN  \E a \in DOMAIN m : ~JsonNative(m[a])
         THEN "TypeError"
         ELSE IF ~ioOk THEN "IOFailure" ELSE "ok"

\* storage.save(): the content written
StorageSaveContent(heap, reg) ==
    [k \in DOMAIN reg |-> to_dict(heap[reg[k]]).val]

(* ---- inputs ---- *)

KwKeys == {"__class__", "id", "created_at", "updated_at", "email"}

SomeStr == Str(<<"a">>)

\* the values a caller passes for key k: None, a str that is no timestamp,
\* two timestamps as isoformat() writes them, and one with a zero fraction
\* written out
KwValues(k) ==
    CASE k = "__class__" -> {ClassName("User")}
      [] k = "id" -> {None, SomeStr}
      [] k = "email" -> {SomeStr}
      [] OTHER -> {None, SomeStr, Str(isoformat(0)), Str(isoformat(1)),
                   Str(<<"T", "0", ".", "0">>)}

\* the values of a mapping that was serialized from an instance
StoredValues(k) ==
    {v \in KwValues(k) :
        /\ IsStr(v)
        /\ k \in TimestampKeys =>
               /\ fromisoformat(v).err = "ok"
               /\ v = Str(isoformat(fromisoformat(v).val[2]))}

AllKwValues == UNION {KwValues(k) : k \in KwKeys}

\* any keyword arguments
Kwargs ==
    UNION {{f \in [D -> AllKwValues] : \A k \in D : f[k] \in KwValues(k)} :
              D \in SUBSET KwKeys}

\* keyword arguments with well-formed values, any of them left out
StoredKwargs ==
    UNION {{f \in [D -> AllKwValues] : \A k \in D : f[k] \in StoredValues(k)} :
              D \in SUBSET (KwKeys \ {"__class__"})}

Args == {<<>>, <<SomeStr>>}

(* ---- state ---- *)

\* objs      the heap: per instance its class, its __dict__, and two ghost
\*           fields, fresh (constructed with no keyword arguments) and sane
\*           (fresh, or constructed from a mapping whose timestamps
\*           satisfied Sane at that moment)
\* registry  the storage registry: composite key -> heap index
\* file      the storage file: <<>> while absent, <<content>> once written
\* now       the reading of datetime.datetime.now()
\* nextUuid  the number of uuid4() draws so far
\* last      the latest call and its outcome

Live == 1..Len(objs)

\* the timestamps of the __dict__ d are not later than the clock reading t,
\* and created_at is not later than updated_at
Sane(d, t) ==
    /\ \A k \in TimestampKeys : Has(d, k) => d[k][2] <= t
    /\ (Has(d, "created_at") /\ Has(d, "updated_at")) =>
           d["created_at"][2] <= d["updated_at"][2]

\* the keys of a mapping whose value is None
NullKeys(kwargs) == {k \in DOMAIN kwargs : kwargs[k] = None}

\* The record of the latest call: the operation, the instance, the error
\* raised ("ok" for none), the None-valued keys passed; for a constructor
\* call that returned, its arguments, the storage.new calls it made and
\* whether the registry changed; src, the instance whose to_dict() the
\* constructor was given (0 for none); for save, the __dict__ before the call
NoOp ==
    [op |-> "none", idx |-> 0, err |-> "ok", args |-> <<>>,
     kwargs |-> EmptyDict, nulls |-> {}, newCalls |-> 0, prev |-> EmptyDict,
     regChanged |-> FALSE, src |-> 0]

Init ==
    /\ objs = <<>>
    /\ registry = <<>>
    /\ file = <<>>
    /\ now = 0
    /\ nextUuid = 0
    /\ last = NoOp

\* cls(*args, **kwargs), the heap holding fewer than cap instances
Construct(cls, args, kwargs, cap, src) ==
    /\ Len(objs) < cap
    /\ LET i == Len(objs) + 1
           o == [cls |-> cls,
                 dict |-> InitDict(args, kwargs, uuid4(nextUuid), now),
                 fresh |-> ~UsesCreate(kwargs),
                 sane |-> ~UsesCreate(kwargs) \/ Sane(create(kwargs), now)]
           rec == [NoOp EXCEPT !.op = "init", !.nulls = NullKeys(kwargs),
                               !.src = src]
       IN  IF UsesCreate(kwargs) /\ CreateErrors(kwargs) # {}
           THEN /\ \E e \in CreateErrors(kwargs) : last' = [rec EXCEPT !.err = e]
                /\ UNCHANGED <<objs, registry, file, now, nextUuid>>
           ELSE IF InitRegisters(args, kwargs) /\ ~Has(o.dict, "id")
           THEN \* storage.new(self) reads self.id for the key
                /\ last' = [rec EXCEPT !.err = "AttributeError"]
                /\ UNCHANGED <<objs, registry, file, now, nextUuid>>
           ELSE /\ objs' = Append(objs, o)
                /\ registry' = IF InitRegisters(args, kwargs)
                               THEN StorageNew(registry, o, i)
                               ELSE registry
                /\ nextUuid' = IF UsesCreate(kwargs) THEN nextUuid
                               ELSE nextUuid + 1
                /\ last' = [rec EXCEPT
                              !.idx = i, !.args = args, !.kwargs = kwargs,
                              !.newCalls = IF InitRegisters(args, kwargs)
                                           THEN 1 ELSE 0,
                              !.regChanged = registry' # registry]
                /\ UNCHANGED <<file, now>>

\* cls(**obj.to_dict()) for a live obj
Clone(j) ==
    /\ to_dict(objs[j]).err = "ok"
    /\ Construct(objs[j].cls, <<>>, to_dict(objs[j]).val, MaxObjs, j)

\* mutant of SaveFlushed: storage.save() runs before updated_at is set
SaveFlushed_BeforeStamp(heap, i, t) == heap

\* the heap storage.save() serializes during obj.save()
SaveFlushed(heap, i, t) == [heap EXCEPT ![i].dict = SaveStamp(heap[i].dict, t)]

\* obj.save(); ioOk: the write of the storage file succeeds
Save(i, ioOk) ==
    LET stamped == [objs EXCEPT ![i].dict = SaveStamp(objs[i].dict, now)]
        flushed == SaveFlushed(objs, i, now)
        e == StorageSaveErr(flushed, registry, ioOk)
    IN  /\ objs' = stamped
        /\ file' = IF e = "ok" THEN <<StorageSaveContent(flushed, registry)>>
                   ELSE file
        /\ last' = [NoOp EXCEPT !.op = "save", !.idx = i, !.err = e,
                                !.prev = objs[i].dict]
        /\ UNCHANGED <<registry, now, nextUuid>>

\* models.storage.new(obj) by a caller, as a bulk reload does
Register(i) ==
    /\ IF Has(objs[i].dict, "id")
       THEN /\ registry' = StorageNew(registry, objs[i], i)
            /\ last' = [NoOp EXCEPT !.op = "new", !.idx = i, !.newCalls = 1,
                                    !.regChanged = registry' # registry]
       ELSE /\ last' = [NoOp EXCEPT !.op = "new", !.idx = i,
                                    !.err = "AttributeError"]
            /\ UNCHANGED registry
    /\ UNCHANGED <<objs, file, now, nextUuid>>

\* the wall clock advances (it never goes back)
Tick ==
    /\ now < MaxClock
    /\ now' = now + 1
    /\ UNCHANGED <<objs, registry, file, nextUuid, last>>

Next ==
    \/ \E cls \in Classes, kwargs \in StoredKwargs :
           Construct(cls, <<>>, kwargs, MaxObjs, 0)
    \/ \E j \in Live : Clone(j)
    \/ \E i \in Live : Save(i, TRUE)
    \/ \E i \in Live : Save(i, FALSE)
    \/ \E i \in Live : Register(i)
    \/ Tick

Spec == Init /\ [][Next]_vars

\* the constructor alone, over every argument shape
NextCtor ==
    \E cls \in Classes, args \in Args, kwargs \in Kwargs :
        Construct(cls, args, kwargs, MaxCtorObjs, 0)

SpecCtor == Init /\ [][NextCtor]_vars

(* ---- properties ---- *)

Registered(i) == \E k \in DOMAIN registry : registry[k] = i

HasTimestamps(i) ==
    \A k \in TimestampKeys : Has(objs[i].dict, k) /\ IsDatetime(objs[i].dict[k])

CreatedAt(i) == objs[i].dict["created_at"][2]

UpdatedAt(i) == objs[i].dict["updated_at"][2]

\* the values of the __dict__ d
Values(d) == {d[k] : k \in DOMAIN d}

Constructed == last.op = "init" /\ last.err = "ok"

Saved == last.op = "save"

\* C1: for every instance E whose to_dict() returns, constructing an instance
\* of the same class from E.to_dict() raises nothing and its to_dict() equals
\* E.to_dict(); and an instance that was constructed from another's to_dict()
\* has the same to_dict() as that one.
C1_RoundTrip ==
    /\ \A i \in Live :
           to_dict(objs[i]).err = "ok" =>
               LET m == to_dict(objs[i]).val
                   e2 == [cls |-> objs[i].cls,
                          dict |-> InitDict(<<>>, m, uuid4(nextUuid), now)]
               IN  /\ UsesCreate(m)
                   /\ CreateErrors(m) = {}
                   /\ to_dict(e2).err = "ok"
                   /\ to_dict(e2).val = m
    /\ (last.op = "init" /\ last.src # 0) =>
           /\ last.err = "ok"
           /\ to_dict(objs[last.idx]).err = "ok"
           /\ to_dict(objs[last.idx]).val = to_dict(objs[last.src]).val
           /\ to_dict(objs[last.idx]).val = last.kwargs

\* C1 witness: an instance was just constructed from the to_dict() of a fresh
\* instance whose updated_at has a fraction of a second
C1_Witness ==
    /\ Constructed
    /\ last.src # 0
    /\ objs[last.src].fresh
    /\ UpdatedAt(last.src) % TicksPerSec # 0

\* C2 as claimed: created_at <= updated_at for every instance that has both
C2_Original ==
    \A i \in Live : HasTimestamps(i) => CreatedAt(i) <= UpdatedAt(i)

\* C2 amended: created_at <= updated_at for every instance constructed fresh,
\* and for every instance constructed from a mapping whose timestamps were
\* not later than the clock and had created_at <= updated_at
C2_Amended ==
    \A i \in Live :
        (objs[i].sane /\ HasTimestamps(i)) => CreatedAt(i) <= UpdatedAt(i)

\* C2 witness: a fresh instance and an instance built from such a mapping are
\* live, and the latest call saved one of them later than its creation
C2_Witness ==
    /\ Saved
    /\ objs[last.idx].sane
    /\ HasTimestamps(last.idx)
    /\ CreatedAt(last.idx) < UpdatedAt(last.idx)
    /\ \E i, j \in Live : objs[i].fresh /\ ~objs[j].fresh /\ objs[j].sane

\* C3 as claimed: no two live instances have the same id
C3_Original ==
    \A i, j \in Live :
        (i # j /\ Has(objs[i].dict, "id") /\ Has(objs[j].dict, "id")) =>
            objs[i].dict["id"] # objs[j].dict["id"]

\* C3 amended: no two live instances that were constructed fresh have the
\* same id
C3_Amended ==
    \A i, j \in Live :
        (i # j /\ objs[i].fresh /\ objs[j].fresh) =>
            objs[i].dict["id"] # objs[j].dict["id"]

\* C3 witness: two fresh instances are live
C3_Witness == \E i, j \in Live : i # j /\ objs[i].fresh /\ objs[j].fresh

\* C4: a construction with no keyword arguments calls storage.new(self) once
\* and leaves the instance registered under its key; a construction with
\* keyword arguments calls it never and leaves the registry as it was
C4_RegisteredIffFresh ==
    Constructed =>
        IF DOMAIN last.kwargs = {}
        THEN /\ last.newCalls = 1
             /\ Key(objs[last.idx]) \in DOMAIN registry
             /\ registry[Key(objs[last.idx])] = last.idx
        ELSE /\ last.newCalls = 0
             /\ ~last.regChanged
             /\ ~Registered(last.idx)

\* C4 witness: an instance was just constructed from a mapping that has an
\* id, while the registry holds a fresh instance
C4_Witness ==
    /\ Constructed
    /\ "id" \in DOMAIN last.kwargs
    /\ \E i \in Live : objs[i].fresh /\ Registered(i)

C6_Claim == (last.op = "init" /\ last.nulls # {}) => last.err = "TypeError"

\* C7 as claimed: a save that raises leaves the instance as it was
C7_Claim ==
    (Saved /\ last.err # "ok") => objs[last.idx].dict = last.prev

\* C8: after a save that returned, of a registered instance, the file has an
\* entry equal to the instance's to_dict()
C8_FileHasSaved ==
    (Saved /\ last.err = "ok" /\ Registered(last.idx)) =>
        /\ Len(file) = 1
        /\ to_dict(objs[last.idx]).err = "ok"
        /\ \E k \in DOMAIN file[1] :
               file[1][k] = to_dict(objs[last.idx]).val

\* C8 witness: a registered instance was saved later than its last update
\* and the save returned
C8_Witness ==
    /\ Saved
    /\ last.err = "ok"
    /\ Registered(last.idx)
    /\ Has(last.prev, "updated_at")
    /\ UpdatedAt(last.idx) # last.prev["updated_at"][2]

====
